---- MODULE Spec2Model ----
(***************************************************************************)
(* Model of chemcomp_loader/planet_loader.py: the construction of one      *)
(* Planet_class object from a simulation output file (.h5) and a           *)
(* configuration file, followed by the two composition views               *)
(* (Planet_atmo, Planet_core).                                             *)
(*                                                                         *)
(* Python values are tagged records ([type |-> ..., ...]) so that values   *)
(* of different Python types can be compared.  Floating point division by  *)
(* a unit constant is kept as an exact quotient (numerator, denominator);  *)
(* rounding is not modelled.                                               *)
(***************************************************************************)
EXTENDS Integers, Sequences, FiniteSets, TLC

(* ------------------------------ bounds --------------------------------- *)

\* number of simulation time steps stored in a file
NSteps == 2
\* largest length of the species axis of the composition arrays
MaxSpecies == 2
\* largest number of options written in a configuration file
MaxOpts == 1

(* ------------------------ constants of the module ---------------------- *)

\* (1*u.au).cgs.value = 1.495978707e13 cm, kept as mantissa * 10^exp
AU == [mant |-> 1495978707, exp |-> 4]
\* (1*u.Myr).cgs.value = 3.15576e13 s, kept as mantissa * 10^exp
Myr == [mant |-> 315576, exp |-> 8]

\* the nodes load_planet reads from /planet, in the order of the assignments
Fields ==
  << "M", "M_a", "M_c", "M_z_gas", "M_z_peb", "T", "a_p", "comp_a", "comp_c",
     "fSigma", "gamma_norm", "gamma_tot", "m_dot_a_chem_gas",
     "m_dot_a_chem_peb", "m_dot_a_gas", "m_dot_a_peb", "m_dot_c_chem_gas",
     "m_dot_c_chem_peb", "m_dot_c_gas", "m_dot_c_peb", "m_dot_gas",
     "m_dot_peb", "peb_iso", "pebble_flux", "regime_gas", "regime_peb",
     "sigma_g", "sigma_peb", "t", "tau_m", "units" >>

FieldSet == {Fields[k] : k \in 1..Len(Fields)}

\* the options load_parameters_from_config copies, in the order of the
\* assignments: attribute written, section consulted, key looked up
ConfigOptions ==
  << [attr |-> "matter_removal",       section |-> "config_planet", key |-> "matter_removal"],
     [attr |-> "use_heat_torque",      section |-> "config_planet", key |-> "use_heat_torque"],
     [attr |-> "use_dynamical_torque", section |-> "config_planet", key |-> "use_dynamical_torque"],
     [attr |-> "migration",            section |-> "config_planet", key |-> "migration"],
     [attr |-> "M0_fact",              section |-> "config_planet", key |-> "M0_fact"],
     [attr |-> "a_p",                  section |-> "config_planet", key |-> "a_p"],
     [attr |-> "t_0",                  section |-> "config_planet", key |-> "t_0"],
     [attr |-> "rho_c",                section |-> "config_planet", key |-> "rho_c"],
     [attr |-> "r_in",                 section |-> "config_planet", key |-> "r_in"],
     [attr |-> "keep_peb_iso",         section |-> "config_planet", key |-> "keep_peb_iso"],
     [attr |-> "use_pebiso_diffusion", section |-> "config_planet", key |-> "use_pebiso_diffusion"],
     [attr |-> "R_pla",   section |-> "config_planetesimal_accretion", key |-> "R_pla"],
     [attr |-> "rho_pla", section |-> "config_planetesimal_accretion", key |-> "rho_pla"] >>

ConfigAttrs == {ConfigOptions[k].attr : k \in 1..Len(ConfigOptions)}

Sections == {"config_planet", "config_planetesimal_accretion"}

(* --------------------------- Python values ----------------------------- *)

PyNone == [type |-> "NoneType"]
PyBool(b) == [type |-> "bool", repr |-> b]
PyFloat(x) == [type |-> "float", repr |-> x]
PyStr(s) == [type |-> "str", repr |-> s]
NdArray(d) == [type |-> "ndarray", data |-> d]

\* no exception
NoError == [type |-> "none"]

\* x / c for a unit constant c, kept exact
Quot(x, c) == [num |-> x, den |-> c]

\* numpy: array / scalar divides element by element
DivideArray(arr, c) == [i \in DOMAIN arr |-> Quot(arr[i], c)]

\* setattr(obj, name, val) on an object kept as a function from its
\* attribute names to their values
SetAttr(obj, name, val) ==
  [n \in (DOMAIN obj) \cup {name} |-> IF n = name THEN val ELSE obj[n]]

\* an object without attributes
NoAttrs == [n \in {} |-> PyNone]

(* ------------------------- the inputs of a run ------------------------- *)

\* position of a node name in Fields
FieldIndex(f) == CHOOSE k \in 1..Len(Fields) : Fields[k] = f

\* a composition array [step][layer][species]; every cell differs
CompArray(base, species) ==
  [s \in 1..NSteps |->
     [l \in 0..1 |-> [i \in 1..species |-> base + 100 * l + 10 * s + i]]]

\* the content of node f of a complete /planet group
RawNode(f, species) ==
  IF f = "comp_a" THEN CompArray(1000, species)
  ELSE IF f = "comp_c" THEN CompArray(2000, species)
  ELSE [s \in 1..NSteps |-> 10 * FieldIndex(f) + s]

\* the files a run may be given: one that cannot be opened, one without the
\* /planet group, and complete groups from which up to two nodes are removed
FileInputs ==
  {[kind |-> "unopenable", hasPlanet |-> FALSE, nodes |-> <<>>],
   [kind |-> "hdf5", hasPlanet |-> FALSE, nodes |-> <<>>]}
  \cup
  {[kind |-> "hdf5", hasPlanet |-> TRUE,
    nodes |-> [f \in FieldSet \ {m1, m2} |-> RawNode(f, species)]] :
      species \in 1..MaxSpecies, m1 \in FieldSet \cup {"-"}, m2 \in FieldSet \cup {"-"}}

\* the texts an option of the configuration file may hold
Texts == {"False", "0.1", "1/0"}

OptionKeys == {ConfigOptions[k].key : k \in 1..Len(ConfigOptions)}

\* partial maps from (section, key) to a text, with at most n entries
RECURSIVE Entries(_)
Entries(n) ==
  IF n = 0 THEN {<<>>}
  ELSE LET smaller == Entries(n - 1)
       IN smaller \cup
          {[k \in (DOMAIN e) \cup {<<s, o>>} |-> IF k = <<s, o>> THEN t ELSE e[k]] :
             e \in smaller, s \in Sections, o \in OptionKeys, t \in Texts}

\* the mapping of mappings import_config returns for the entries e when the
\* sections present are exactly the set present
ConfigOf(e, present) ==
  [kind |-> "mapping",
   sections |->
     [s \in present |->
        [o \in {k[2] : k \in {j \in DOMAIN e : j[1] = s}} |-> PyStr(e[<<s, o>>])]]]

\* the configuration files a run may be given: malformed text, or a mapping
\* of mappings with at most MaxOpts options
ConfigInputs ==
  {[kind |-> "malformed", sections |-> <<>>]}
  \cup
  UNION {{ConfigOf(e, present) :
            present \in {p \in SUBSET Sections : \A k \in DOMAIN e : k[1] \in p}} :
         e \in Entries(MaxOpts)}

\* the species names chemistry_properties may supply
ElementPool == {"C", "O"}
MoleculePool == {"C", "CO"}

\* the lists without repetition over a pool
NameLists(pool) ==
  {<<>>} \cup {<<a>> : a \in pool}
         \cup {q \in pool \X pool : q[1] # q[2]}

(* ------------------------------- state --------------------------------- *)

VARIABLES
  pc,             \* position of the constructor
  file,           \* the simulation output file given to load_planet
  handle,         \* the handle of tables.open_file: "none", "open", "closed"
  idx,            \* position in Fields of the next node load_planet reads
  config,         \* what import_config read from the configuration file
  cidx,           \* position in ConfigOptions of the next option evaluated
  element_array,  \* chemistry_properties.element_array, fixed at its first use
  molecule_array, \* chemistry_properties.molecule_array, fixed at its first use
  self,           \* the attributes of the Planet_class object under construction
  err,            \* the exception raised, NoError when none
  returned        \* what the caller of Planet_class(...) holds

vars == <<pc, file, handle, idx, config, cidx, element_array, molecule_array,
          self, err, returned>>

NoFile == [kind |-> "unread", hasPlanet |-> FALSE, nodes |-> <<>>]
NoConfig == [kind |-> "unread", sections |-> <<>>]
NoObject == [type |-> "unbound", attrs |-> NoAttrs]

Error(type, detail) == [type |-> type, detail |-> detail]

Init ==
  /\ pc = "open"
  /\ file = NoFile
  /\ handle = "none"
  /\ idx = 1
  /\ config = NoConfig
  /\ cidx = 1
  /\ element_array = <<>>
  /\ molecule_array = <<>>
  /\ self = NoAttrs
  /\ err = NoError
  /\ returned = NoObject

(* ------------------------ Planet_class.__init__ ------------------------ *)

\* InitOrder with the views built before the configuration is merged
InitOrder_ViewsFirst == <<"load", "atmo", "core", "config">>

\* the phases of __init__, in the order of its statements
InitOrder == <<"load", "config", "atmo", "core">>

\* the position at which a phase starts
EntryPc(phase) ==
  CASE phase = "load" -> "open"
    [] phase = "config" -> "import_config"
    [] phase = "atmo" -> "atmo"
    [] phase = "core" -> "core"

\* the position reached when a phase returns normally
AfterPhase(phase) ==
  LET k == CHOOSE j \in 1..Len(InitOrder) : InitOrder[j] = phase
  IN IF k = Len(InitOrder) THEN "return" ELSE EntryPc(InitOrder[k + 1])

(* ---------------------- Planet_class.load_planet ----------------------- *)

\* LoadedValue with the time axis divided by the wrong unit constant
LoadedValue_WrongUnit(f, raw) ==
  IF f = "a_p" THEN NdArray(DivideArray(raw, AU))
  ELSE IF f = "t" THEN NdArray(DivideArray(raw, AU))
  ELSE NdArray(raw)

\* the attribute value load_planet stores for node f holding raw
LoadedValue(f, raw) ==
  IF f = "a_p" THEN NdArray(DivideArray(raw, AU))
  ELSE IF f = "t" THEN NdArray(DivideArray(raw, Myr))
  ELSE NdArray(raw)

\* [q for q in dir(f.get_node('/planet')) if q[0] != '_']: the names of the
\* children of the group, sorted (Fields is in that order)
PublicNames(nodes) == SelectSeq(Fields, LAMBDA f : f \in DOMAIN nodes)

\* tables.open_file(file_path, mode='r') entering the with block
OpenFile ==
  /\ pc = "open"
  /\ \E f \in FileInputs :
       /\ file' = f
       /\ IF f.kind = "unopenable"
          THEN /\ err' = Error("OSError", "file_path")
               /\ pc' = "failed"
               /\ handle' = handle
          ELSE /\ err' = err
               /\ pc' = "get_node"
               /\ handle' = "open"
  /\ UNCHANGED <<idx, config, cidx, element_array, molecule_array, self, returned>>

\* self.disc_quantities = [... f.get_node('/planet') ...]
GetNode ==
  /\ pc = "get_node"
  /\ IF ~file.hasPlanet
     THEN /\ err' = Error("NoSuchNodeError", "/planet")
          /\ pc' = "with_exit"
          /\ self' = self
     ELSE /\ err' = err
          /\ pc' = "read"
          /\ self' = SetAttr(self, "disc_quantities",
                             [type |-> "list", data |-> PublicNames(file.nodes)])
  /\ idx' = 1
  /\ UNCHANGED <<file, handle, config, cidx, element_array, molecule_array, returned>>

\* ReadField passing over a node the group lacks instead of raising
ReadField_SkipsMissing ==
  /\ pc = "read"
  /\ LET f == Fields[idx]
     IN /\ self' = IF f \notin DOMAIN file.nodes THEN self
                   ELSE SetAttr(self, f, LoadedValue(f, file.nodes[f]))
        /\ idx' = idx + 1
        /\ pc' = IF idx = Len(Fields) THEN "with_exit" ELSE "read"
        /\ err' = err
  /\ UNCHANGED <<file, handle, config, cidx, element_array, molecule_array, returned>>

\* self.<f> = np.array(f.root.planet.<f>) for the next f of Fields
ReadField ==
  /\ pc = "read"
  /\ LET f == Fields[idx]
     IN IF f \notin DOMAIN file.nodes
        THEN /\ err' = Error("NoSuchNodeError", f)
             /\ pc' = "with_exit"
             /\ UNCHANGED <<self, idx>>
        ELSE /\ self' = SetAttr(self, f, LoadedValue(f, file.nodes[f]))
             /\ idx' = idx + 1
             /\ pc' = IF idx = Len(Fields) THEN "with_exit" ELSE "read"
             /\ err' = err
  /\ UNCHANGED <<file, handle, config, cidx, element_array, molecule_array, returned>>

\* WithExit closing the file on the normal path only (a close() at the end
\* of the block instead of a context manager)
WithExit_LeaksOnError ==
  /\ pc = "with_exit"
  /\ handle' = IF err # NoError THEN handle ELSE "closed"
  /\ pc' = IF err # NoError THEN "failed" ELSE AfterPhase("load")
  /\ UNCHANGED <<file, idx, config, cidx, element_array, molecule_array, self,
                 err, returned>>

\* leaving the with block: the context manager closes the file, then the
\* pending exception, if any, propagates out of load_planet and __init__
WithExit ==
  /\ pc = "with_exit"
  /\ handle' = "closed"
  /\ pc' = IF err # NoError THEN "failed" ELSE AfterPhase("load")
  /\ UNCHANGED <<file, idx, config, cidx, element_array, molecule_array, self,
                 err, returned>>

(* --------------- Planet_class.load_parameters_from_config -------------- *)

\* dict.get(key, default)
Get(d, key, default) == IF key \in DOMAIN d THEN d[key] ELSE default

\* whether eval_kwargs raises on v
EvalRaises(v) == v.type = "str" /\ v.repr = "1/0"

\* what eval_kwargs returns for v when it does not raise: the typed value
\* of the text, and None for None
EvalValue(v) ==
  IF v.type # "str" THEN v
  ELSE IF v.repr \in {"True", "False"} THEN PyBool(v.repr)
  ELSE IF v.repr = "None" THEN PyNone
  ELSE PyFloat(v.repr)

\* the exception eval_kwargs raises on v: it is given the value alone
EvalError(v) == Error("ZeroDivisionError", "division by zero")

\* OptionValue falling back to the other section when its own lacks the key
OptionValue_AnySection(cfg, o) ==
  LET own == Get(Get(cfg.sections, o.section, <<>>), o.key, PyNone)
      other == CHOOSE s \in Sections : s # o.section
  IN IF own # PyNone THEN own
     ELSE Get(Get(cfg.sections, other, <<>>), o.key, PyNone)

\* config_disk.get(key, None) or config_planetesimal_accretion.get(key, None)
\* for option o, the section defaulting to {} when the file omits it
OptionValue(cfg, o) == Get(Get(cfg.sections, o.section, <<>>), o.key, PyNone)

\* TargetAttr with the start time written to the time axis
TargetAttr_ClobbersT(o) == IF o.attr = "t_0" THEN "t" ELSE o.attr

\* the attribute the assignment for option o writes
TargetAttr(o) == o.attr

\* config = import_config(config_file_path)
ImportConfig ==
  /\ pc = "import_config"
  /\ \E c \in ConfigInputs :
       /\ config' = c
       /\ IF c.kind = "malformed"
          THEN /\ err' = Error("ParseError", "config_file_path")
               /\ pc' = "failed"
          ELSE /\ err' = err
               /\ pc' = "eval"
  /\ cidx' = 1
  /\ UNCHANGED <<file, handle, idx, element_array, molecule_array, self, returned>>

\* self.<attr> = eval_kwargs(<section>.get('<key>', None)) for the next option
EvalOption ==
  /\ pc = "eval"
  /\ LET o == ConfigOptions[cidx]
         v == OptionValue(config, o)
     IN IF EvalRaises(v)
        THEN /\ err' = EvalError(v)
             /\ pc' = "failed"
             /\ UNCHANGED <<self, cidx>>
        ELSE /\ self' = SetAttr(self, TargetAttr(o), EvalValue(v))
             /\ cidx' = cidx + 1
             /\ pc' = IF cidx = Len(ConfigOptions) THEN AfterPhase("config") ELSE "eval"
             /\ err' = err
  /\ UNCHANGED <<file, handle, idx, config, element_array, molecule_array, returned>>

(* ----------------------- Planet_atmo, Planet_core ---------------------- *)

Min(a, b) == IF a < b THEN a ELSE b

\* comp[:, layer].swapaxes(0, 1): one sequence over the steps per species
Columns(comp, layer) ==
  [i \in 1..Len(comp[1][layer]) |-> [s \in 1..Len(comp) |-> comp[s][layer][i]]]

\* zip(names, cols): pairs up to the shorter length
Zip(names, cols) ==
  [k \in 1..Min(Len(names), Len(cols)) |-> <<names[k], cols[k]>>]

\* for name, component in pairs: setattr(obj, name, component)
RECURSIVE SetAll(_, _)
SetAll(obj, pairs) ==
  IF pairs = <<>> THEN obj
  ELSE SetAll(SetAttr(obj, Head(pairs)[1], NdArray(Head(pairs)[2])), Tail(pairs))

\* ViewAttrs with the two loops in the other order
ViewAttrs_MoleculesFirst(comp, elements, molecules) ==
  SetAll(SetAll(NoAttrs, Zip(molecules, Columns(comp, 1))),
         Zip(elements, Columns(comp, 0)))

\* the attributes of the view built from the composition array comp:
\* the elements loop, then the molecules loop
ViewAttrs(comp, elements, molecules) ==
  SetAll(SetAll(NoAttrs, Zip(elements, Columns(comp, 0))),
         Zip(molecules, Columns(comp, 1)))

\* self.atmo = Planet_atmo(self)
BuildAtmo ==
  /\ pc = "atmo"
  /\ \E e \in NameLists(ElementPool), m \in NameLists(MoleculePool) :
       /\ element_array' = e
       /\ molecule_array' = m
       /\ self' = SetAttr(self, "atmo",
                          [type |-> "Planet_atmo",
                           attrs |-> ViewAttrs(self["comp_a"].data, e, m)])
  /\ pc' = AfterPhase("atmo")
  /\ UNCHANGED <<file, handle, idx, config, cidx, err, returned>>

\* self.core = Planet_core(self)
BuildCore ==
  /\ pc = "core"
  /\ self' = SetAttr(self, "core",
                     [type |-> "Planet_core",
                      attrs |-> ViewAttrs(self["comp_c"].data,
                                          element_array, molecule_array)])
  /\ pc' = AfterPhase("core")
  /\ UNCHANGED <<file, handle, idx, config, cidx, element_array, molecule_array,
                 err, returned>>

\* __init__ returns: the caller receives the object
Return ==
  /\ pc = "return"
  /\ returned' = [type |-> "Planet_class", attrs |-> self]
  /\ pc' = "done"
  /\ UNCHANGED <<file, handle, idx, config, cidx, element_array, molecule_array,
                 self, err>>

Next ==
  \/ OpenFile
  \/ GetNode
  \/ ReadField
  \/ WithExit
  \/ ImportConfig
  \/ EvalOption
  \/ BuildAtmo
  \/ BuildCore
  \/ Return

Spec == Init /\ [][Next]_vars

(* ------------------------------ properties ----------------------------- *)

\* load_planet has returned normally
LoadReturned ==
  \/ pc \in {"import_config", "eval", "atmo", "core", "return", "done"}
  \/ pc = "failed" /\ config.kind # "unread"

\* load_parameters_from_config has returned normally
ConfigReturned == cidx = Len(ConfigOptions) + 1

\* the exception came out of load_planet
LoadFailed == pc = "failed" /\ err.type \in {"OSError", "NoSuchNodeError"}

\* the exception came out of load_parameters_from_config
ConfigFailed == pc = "failed" /\ err.type \in {"ParseError", "ZeroDivisionError"}

\* the file lacks something load_planet needs
FileDefective ==
  \/ file.kind = "unopenable"
  \/ file.kind = "hdf5" /\ ~file.hasPlanet
  \/ file.kind = "hdf5" /\ file.hasPlanet /\ FieldSet \ DOMAIN file.nodes # {}

\* length of the species axis of the loaded composition arrays
SpeciesCount == Len(self["comp_a"].data[1][0])

\* array[:, layer, i] of a loaded composition array
SpeciesSeries(attr, layer, i) ==
  NdArray([s \in 1..NSteps |-> self[attr].data[s][layer][i]])

\* the views built so far, each with the composition array it is built from
BuiltViews ==
  {v \in {<<"atmo", "comp_a">>, <<"core", "comp_c">>} : v[1] \in DOMAIN self}

\* C1: when load_planet has returned, a_p is the stored /planet/a_p divided
\* element by element by AU, and t is the stored /planet/t divided element by
\* element by Myr (t keeps that value for the rest of the construction).
C1_Rescaled ==
  /\ pc = "import_config" =>
       self["a_p"] =
         NdArray([i \in 1..NSteps |-> [num |-> file.nodes["a_p"][i], den |-> AU]])
  /\ LoadReturned =>
       self["t"] =
         NdArray([i \in 1..NSteps |-> [num |-> file.nodes["t"][i], den |-> Myr]])

C1_Witness ==
  /\ pc = "import_config"
  /\ self["a_p"].data[NSteps] = [num |-> 70 + NSteps, den |-> AU]
  /\ self["t"].data[1] = [num |-> 291, den |-> Myr]

\* the typed value a configuration text stands for
TypedValue(text) ==
  IF text = "False" THEN [type |-> "bool", repr |-> "False"]
  ELSE [type |-> "float", repr |-> text]

\* C2: when load_parameters_from_config has returned, each of the thirteen
\* fields holds the evaluated value of its option if the option is present in
\* its own section, and None otherwise (also when the section is omitted, or
\* the option appears only in the other section).
C2_OwnSectionOnly ==
  ConfigReturned =>
    \A k \in 1..Len(ConfigOptions) :
      LET o == ConfigOptions[k]
          present == /\ o.section \in DOMAIN config.sections
                     /\ o.key \in DOMAIN config.sections[o.section]
      IN /\ o.attr \in DOMAIN self
         /\ self[o.attr] =
              IF present THEN TypedValue(config.sections[o.section][o.key].repr)
              ELSE PyNone

C2_Witness ==
  /\ pc = "done"
  /\ "config_planet" \in DOMAIN config.sections
  /\ DOMAIN config.sections["config_planet"] = {"R_pla"}
  /\ returned.attrs["R_pla"] = PyNone

\* C3: when both name lists have exactly the length of the species axis,
\* every element name at position i holds array[:, 0, i] and every molecule
\* name at position j holds array[:, 1, j], in the atmosphere view (comp_a)
\* and in the core view (comp_c).
C3_RoundTrip ==
  \A v \in BuiltViews :
    (Len(element_array) = SpeciesCount /\ Len(molecule_array) = SpeciesCount) =>
      /\ \A i \in 1..SpeciesCount :
           /\ element_array[i] \in DOMAIN self[v[1]].attrs
           /\ self[v[1]].attrs[element_array[i]] = SpeciesSeries(v[2], 0, i)
      /\ \A j \in 1..SpeciesCount :
           /\ molecule_array[j] \in DOMAIN self[v[1]].attrs
           /\ self[v[1]].attrs[molecule_array[j]] = SpeciesSeries(v[2], 1, j)

\* C4: when the file cannot be opened, or lacks the planet group or a
\* required node, the construction never gets past load_planet, ends with an
\* error and hands no object to the caller; an object handed to the caller
\* has every attribute of a complete construction.
C4_AllOrNothing ==
  /\ FileDefective =>
       /\ pc \in {"get_node", "read", "with_exit", "failed"}
       /\ pc = "failed" => err # NoError
       /\ returned = NoObject
  /\ pc = "failed" => returned = NoObject
  /\ returned # NoObject =>
       /\ err = NoError
       /\ FieldSet \cup ConfigAttrs \cup {"disc_quantities", "atmo", "core"}
            = DOMAIN returned.attrs

C4_Witness ==
  /\ pc = "failed"
  /\ err = Error("NoSuchNodeError", "units")
  /\ "tau_m" \in DOMAIN self
  /\ returned = NoObject

\* C5: the file handle is open only inside load_planet; once load_planet has
\* finished, by return or by an error raised while reading, it is closed.
C5_HandleReleased ==
  /\ handle = "open" => pc \in {"get_node", "read", "with_exit"}
  /\ (LoadReturned \/ LoadFailed) =>
       \/ handle = "closed"
       \/ handle = "none" /\ file.kind = "unopenable"

C5_Witness ==
  /\ pc = "failed"
  /\ err = Error("NoSuchNodeError", "a_p")
  /\ handle = "closed"

\* C6: an exception raised by the evaluation of an option's value surfaces
\* as an EvaluationError that names the option.
C6_EvaluationErrorNamesOption ==
  (pc = "failed" /\ config.kind = "mapping") =>
    /\ err.type = "EvaluationError"
    /\ err.detail = ConfigOptions[cidx].key

\* C7: the phases run in the order file load, config merge, atmosphere view,
\* core view, and a failure stops the construction where it happens: the
\* configuration is read only after the whole file load, a view is built only
\* after the whole config merge, the core view only after the atmosphere view;
\* a file-load failure leaves the configuration unread and a config failure
\* leaves both views unbuilt.
C7_PhaseOrder ==
  /\ config.kind # "unread" => (FieldSet \subseteq DOMAIN self /\ handle = "closed")
  /\ pc = "eval" => config.kind = "mapping"
  /\ "atmo" \in DOMAIN self => ConfigReturned
  /\ "core" \in DOMAIN self => "atmo" \in DOMAIN self
  /\ pc \in {"return", "done"} => "core" \in DOMAIN self
  /\ LoadFailed => (config.kind = "unread" /\ cidx = 1 /\ BuiltViews = {})
  /\ ConfigFailed => (~ConfigReturned /\ BuiltViews = {})

C7_Witness ==
  /\ pc = "failed"
  /\ err.type = "ZeroDivisionError"
  /\ cidx = Len(ConfigOptions)
  /\ FieldSet \subseteq DOMAIN self
  /\ BuiltViews = {}

\* the name list written for a layer
LayerNames(layer) == IF layer = 0 THEN element_array ELSE molecule_array

\* C8: a name list whose length differs from the species axis raises no
\* error and is cut to the shorter length: its first min(n, s) names are
\* mapped, each to the species at the same position of its layer, and its
\* further names get no entry.
C8_Truncation ==
  \A v \in BuiltViews : \A layer \in 0..1 :
    LET names == LayerNames(layer)
    IN Len(names) # SpeciesCount =>
         /\ pc # "failed"
         /\ \A k \in 1..Len(names) :
              IF k <= Min(Len(names), SpeciesCount)
              THEN /\ names[k] \in DOMAIN self[v[1]].attrs
                   /\ self[v[1]].attrs[names[k]] = SpeciesSeries(v[2], layer, k)
              ELSE names[k] \notin DOMAIN self[v[1]].attrs

\* C9: load_parameters_from_config writes the thirteen configuration fields
\* and nothing else: every file-loaded field but a_p keeps the value
\* load_planet gave it, and once the merge has returned a_p holds the
\* evaluated option, or None when the option is absent, not the time series.
C9_ConfigFrame ==
  /\ LoadReturned =>
       /\ \A f \in FieldSet \ {"a_p"} :
            self[f] = NdArray(IF f = "t" THEN DivideArray(file.nodes[f], Myr)
                              ELSE file.nodes[f])
       /\ self["disc_quantities"] = [type |-> "list", data |-> Fields]
       /\ DOMAIN self \subseteq
            FieldSet \cup ConfigAttrs \cup {"disc_quantities", "atmo", "core"}
  /\ ConfigReturned =>
       self["a_p"] =
         IF /\ "config_planet" \in DOMAIN config.sections
            /\ "a_p" \in DOMAIN config.sections["config_planet"]
         THEN TypedValue(config.sections["config_planet"]["a_p"].repr)
         ELSE PyNone

C9_Witness ==
  /\ pc = "done"
  /\ returned.attrs["a_p"] = [type |-> "float", repr |-> "0.1"]
  /\ returned.attrs["t"].data[1] = [num |-> 291, den |-> Myr]
  /\ returned.attrs["comp_a"].data[1][0][1] = 1011

\* C10 as stated: a name that occurs in both name lists holds the
\* molecule-layer sequence of its position in the molecule list.
C10_MoleculeWins_AnyPosition ==
  \A v \in BuiltViews :
    \A i \in 1..Len(element_array), j \in 1..Len(molecule_array) :
      element_array[i] = molecule_array[j] =>
        /\ j <= SpeciesCount
        /\ molecule_array[j] \in DOMAIN self[v[1]].attrs
        /\ self[v[1]].attrs[molecule_array[j]] = SpeciesSeries(v[2], 1, j)

\* C10 as amended: a name that occurs in the element list and, within the
\* species axis, in the molecule list has a single entry in the view, the
\* molecule-layer sequence of its position in the molecule list.
C10_MoleculeWins ==
  \A v \in BuiltViews :
    \A i \in 1..Len(element_array), j \in 1..Len(molecule_array) :
      (element_array[i] = molecule_array[j] /\ j <= SpeciesCount) =>
        /\ molecule_array[j] \in DOMAIN self[v[1]].attrs
        /\ self[v[1]].attrs[molecule_array[j]] = SpeciesSeries(v[2], 1, j)

C10_Witness ==
  /\ pc = "done"
  /\ element_array = <<"C", "O">>
  /\ molecule_array = <<"CO", "C">>
  /\ returned.attrs["atmo"].attrs["C"].data[1] = 1112
  /\ returned.attrs["core"].attrs["C"].data[1] = 2112

====
